---- MODULE Spec2Model ----
(***************************************************************************)
(* Dancing-links exact cover solver (dlx::DLX, src/dlx_contexpr.h).        *)
(*                                                                         *)
(* The arena is the struct `data`: parallel arrays S, R, L, U, D, C, RM    *)
(* indexed by node index.  Indices 0..NumCols-1 are the column headers,    *)
(* NumCols is the root ("header" in the source), HeaderSize+k is the cell  *)
(* of the k-th input position.  The recursion of find_solution is kept as  *)
(* an explicit stack of frames, one step per call, loop iteration and      *)
(* return.                                                                 *)
(*                                                                         *)
(* size_t counters are kept as two's-complement integers: the value -1     *)
(* stands for 2^64-1, the result of decrementing 0.  ULess is the          *)
(* unsigned comparison of two such values.                                 *)
(***************************************************************************)
EXTENDS Integers, Sequences, FiniteSets, TLC

\* Bounds of the model: extents of the instances drawn in Init.
MaxCols == 3
MaxRows == 3
MaxNodes == 7
MaxForced == 2
MaxForcedNodes == 3
\* Longer fixed_rows lists are tried on position lists of at most
\* MaxLongNodes positions.
MaxLongForced == 3
MaxLongNodes == 4
MaxRawLen == 3
\* Calls nested deeper than this are taken to recurse until the stack is
\* exhausted (a search on a healthy arena nests at most NumCols + 1 calls).
MaxDepth == 6

VARIABLES
    numCols,    \* template parameter NumCols of this instantiation
    positions,  \* the position_array passed to run: sequence of <<r, c>>
    forced,     \* the fixed_rows array passed to run (empty: first overload)
    state,      \* struct data
    sol,        \* the solution array, indexed 0..NumRows-1
    stack,      \* active find_solution calls, innermost last
    pc,         \* where run is: "run", "force", "call", "loop", "ret", "done";
                \* "hang": a ring walk never ends; "overflow": unbounded recursion
    retval,     \* std::optional<solution> returned by the call that is returning
    built,      \* the arena as init returned it
    nforced,    \* number of fixed_rows entries already applied
    abandoned,  \* number of candidate rows tried and undone so far
    numRows,    \* template parameter NumRows of this instantiation
    adapter     \* the adapter call around the run (tests): its name, arguments, result

vars == <<numCols, positions, forced, state, sol, stack, pc, retval, built, nforced,
          abandoned, numRows, adapter>>

NumRows == numRows
NumNodes == Len(positions)
header == numCols
HeaderSize == numCols + 1
dim == numCols + 1 + NumNodes

\* Unsigned "<" on size_t values kept in two's complement.
ULess(a, b) ==
    IF (a < 0) = (b < 0) THEN a < b ELSE b < 0

\* A walk over a ring of dim nodes that has not come back after this many
\* steps never comes back.
Fuel(st) == 2 * Cardinality(DOMAIN st.R) + 2

Hung(st) == [st EXCEPT !.hung = TRUE]

----------------------------------------------------------------------------
(* coverColumn *)

\* Mutant: the cells of a row are unlinked but the sizes are not decremented.
RECURSIVE CoverRowKeepSize(_, _, _, _)
CoverRowKeepSize(st, i, j, fuel) ==
    IF j = i THEN st
    ELSE IF fuel = 0 THEN Hung(st)
    ELSE LET s1 == [st EXCEPT !.U[st.D[j]] = st.U[j]]
             s2 == [s1 EXCEPT !.D[s1.U[j]] = s1.D[j]]
         IN  CoverRowKeepSize(s2, i, s2.R[j], fuel - 1)

RECURSIVE CoverRow(_, _, _, _)
CoverRow(st, i, j, fuel) ==
    IF j = i THEN st
    ELSE IF fuel = 0 THEN Hung(st)
    ELSE LET s1 == [st EXCEPT !.U[st.D[j]] = st.U[j]]
             s2 == [s1 EXCEPT !.D[s1.U[j]] = s1.D[j]]
             s3 == [s2 EXCEPT !.S[s2.C[j]] = @ - 1]
         IN  CoverRow(s3, i, s3.R[j], fuel - 1)

\* Mutant: the inner loop starts at the cell of the covered column itself
\* (a do-while over the whole row), so that cell is unlinked as well.
RECURSIVE CoverRowsWholeRow(_, _, _, _)
CoverRowsWholeRow(st, columnIdx, i, fuel) ==
    IF i = columnIdx \/ st.hung THEN st
    ELSE IF fuel = 0 THEN Hung(st)
    ELSE LET s0 == [st EXCEPT !.U[st.D[i]] = st.U[i]]
             s1 == [s0 EXCEPT !.D[s0.U[i]] = s0.D[i]]
             s2 == [s1 EXCEPT !.S[s1.C[i]] = @ - 1]
             s3 == CoverRow(s2, i, s2.R[i], Fuel(s2))
         IN  CoverRowsWholeRow(s3, columnIdx, s3.D[i], fuel - 1)

RECURSIVE CoverRows(_, _, _, _)
CoverRows(st, columnIdx, i, fuel) ==
    IF i = columnIdx \/ st.hung THEN st
    ELSE IF fuel = 0 THEN Hung(st)
    ELSE LET s1 == CoverRow(st, i, st.R[i], Fuel(st))
         IN  CoverRows(s1, columnIdx, s1.D[i], fuel - 1)

\* Mutant: the column leaves the root ring but its rows stay in the problem.
coverColumnKeepRows(st, columnIdx) ==
    LET s1 == [st EXCEPT !.L[st.R[columnIdx]] = st.L[columnIdx]]
    IN  [s1 EXCEPT !.R[s1.L[columnIdx]] = s1.R[columnIdx]]

\* Mutant: the rows are removed but the column stays in the root ring.
coverColumnKeepHeader(st, columnIdx) ==
    CoverRows(st, columnIdx, st.D[columnIdx], Fuel(st))

coverColumn(st, columnIdx) ==
    LET s1 == [st EXCEPT !.L[st.R[columnIdx]] = st.L[columnIdx]]
        s2 == [s1 EXCEPT !.R[s1.L[columnIdx]] = s1.R[columnIdx]]
    IN  CoverRows(s2, columnIdx, s2.D[columnIdx], Fuel(st))

----------------------------------------------------------------------------
(* uncoverColumn *)

\* Mutant: a relinked cell is pointed to from above but not from below.
RECURSIVE UncoverRowDownOnly(_, _, _, _)
UncoverRowDownOnly(st, i, j, fuel) ==
    IF j = i THEN st
    ELSE IF fuel = 0 THEN Hung(st)
    ELSE LET s1 == [st EXCEPT !.S[st.C[j]] = @ + 1]
             s2 == [s1 EXCEPT !.D[s1.U[j]] = j]
         IN  UncoverRowDownOnly(s2, i, s2.L[j], fuel - 1)

\* Mutant: the inner loop advances with j = L[i], as an earlier revision did.
RECURSIVE UncoverRowRestart(_, _, _, _)
UncoverRowRestart(st, i, j, fuel) ==
    IF j = i THEN st
    ELSE IF fuel = 0 THEN Hung(st)
    ELSE LET s1 == [st EXCEPT !.S[st.C[j]] = @ + 1]
             s2 == [s1 EXCEPT !.D[s1.U[j]] = j]
             s3 == [s2 EXCEPT !.U[s2.D[j]] = j]
         IN  UncoverRowRestart(s3, i, s3.L[i], fuel - 1)

RECURSIVE UncoverRow(_, _, _, _)
UncoverRow(st, i, j, fuel) ==
    IF j = i THEN st
    ELSE IF fuel = 0 THEN Hung(st)
    ELSE LET s1 == [st EXCEPT !.S[st.C[j]] = @ + 1]
             s2 == [s1 EXCEPT !.D[s1.U[j]] = j]
             s3 == [s2 EXCEPT !.U[s2.D[j]] = j]
         IN  UncoverRow(s3, i, s3.L[j], fuel - 1)

RECURSIVE UncoverRows(_, _, _, _)
UncoverRows(st, columnIdx, i, fuel) ==
    IF i = columnIdx \/ st.hung THEN st
    ELSE IF fuel = 0 THEN Hung(st)
    ELSE LET s1 == UncoverRow(st, i, st.L[i], Fuel(st))
         IN  UncoverRows(s1, columnIdx, s1.U[i], fuel - 1)

\* Mutant: the rows are relinked but the size counters are not restored.
uncoverColumnNoSize(st, columnIdx) ==
    LET s1 == UncoverRows(st, columnIdx, st.U[columnIdx], Fuel(st))
        s2 == [s1 EXCEPT !.R[s1.L[columnIdx]] = columnIdx]
        s3 == [s2 EXCEPT !.L[s2.R[columnIdx]] = columnIdx]
    IN  [s3 EXCEPT !.S = st.S]

\* Mutant: the rows are restored but the column is not put back in the root ring.
uncoverColumnNoHeader(st, columnIdx) ==
    UncoverRows(st, columnIdx, st.U[columnIdx], Fuel(st))

uncoverColumn(st, columnIdx) ==
    LET s1 == UncoverRows(st, columnIdx, st.U[columnIdx], Fuel(st))
        s2 == [s1 EXCEPT !.R[s1.L[columnIdx]] = columnIdx]
        s3 == [s2 EXCEPT !.L[s2.R[columnIdx]] = columnIdx]
    IN  IF s1.hung THEN s1 ELSE s3

----------------------------------------------------------------------------
(* useRow: the do-while over the row's cells, starting with rowIdx itself *)

RECURSIVE UseRowFrom(_, _, _, _)
UseRowFrom(st, rowIdx, i, fuel) ==
    IF st.hung THEN st
    ELSE IF fuel = 0 THEN Hung(st)
    ELSE LET s1 == coverColumn(st, st.C[i])
             nx == s1.R[i]
         IN  IF nx = rowIdx THEN s1 ELSE UseRowFrom(s1, rowIdx, nx, fuel - 1)

\* Mutant: only the column of the addressed cell is covered.
useRowOneColumn(st, rowIdx) == coverColumn(st, st.C[rowIdx])

useRow(st, rowIdx) == UseRowFrom(st, rowIdx, rowIdx, Fuel(st))

(* unuseRow: the do-while over the row's cells, starting with rowIdx itself
   and going left *)

RECURSIVE UnuseRowFrom(_, _, _, _)
UnuseRowFrom(st, rowIdx, i, fuel) ==
    IF st.hung THEN st
    ELSE IF fuel = 0 THEN Hung(st)
    ELSE LET s1 == uncoverColumn(st, st.C[i])
             nx == s1.L[i]
         IN  IF nx = rowIdx THEN s1 ELSE UnuseRowFrom(s1, rowIdx, nx, fuel - 1)

unuseRow(st, rowIdx) == UnuseRowFrom(st, rowIdx, rowIdx, Fuel(st))

unuseRowSol(st, rowIdx, s) == [s EXCEPT ![st.RM[rowIdx]] = FALSE]

\* Mutant: the row is not marked in the solution.
useRowSolSkip(st, rowIdx, s) == s

useRowSol(st, rowIdx, s) == [s EXCEPT ![st.RM[rowIdx]] = TRUE]

----------------------------------------------------------------------------
(* init *)

\* One past the last index of the run of positions with row number rowNumber
\* that starts at rowEndIdx (0-based indices into positions).
RECURSIVE RowEnd(_, _, _)
RowEnd(pos, rowNumber, rowEndIdx) ==
    IF rowEndIdx < Len(pos) /\ pos[rowEndIdx + 1][1] = rowNumber
    THEN RowEnd(pos, rowNumber, rowEndIdx + 1)
    ELSE rowEndIdx

\* Mutant: a new cell is spliced in just below its header, not just above it.
RECURSIVE LinkRowBelowHeader(_, _, _, _, _, _)
LinkRowBelowHeader(d, pos, hs, rowStartIdx, rowEndIdx, idx) ==
    IF idx >= rowEndIdx \/ d.hung THEN d
    ELSE LET column == pos[idx + 1][2]
             rowNumber == pos[rowStartIdx + 1][1]
             posIdx == hs + idx
             d1 == [d EXCEPT !.C[posIdx] = column, !.RM[posIdx] = rowNumber]
             d2 == [d1 EXCEPT !.D[posIdx] = d1.D[column], !.U[posIdx] = column]
             d3 == [d2 EXCEPT !.U[d2.D[column]] = posIdx]
             d4 == [d3 EXCEPT !.D[column] = posIdx]
             d5 == [d4 EXCEPT !.S[column] = @ + 1]
             d6 == [d5 EXCEPT !.L[posIdx] = IF idx > rowStartIdx THEN posIdx - 1 ELSE posIdx,
                              !.R[posIdx] = rowStartIdx + hs]
             d7 == [d6 EXCEPT !.L[d6.R[posIdx]] = posIdx]
             d8 == [d7 EXCEPT !.R[d7.L[posIdx]] = posIdx]
         IN  LinkRowBelowHeader(d8, pos, hs, rowStartIdx, rowEndIdx, idx + 1)

\* The for loop linking the nodes idx..rowEndIdx-1 of one row.
RECURSIVE LinkRow(_, _, _, _, _, _)
LinkRow(d, pos, hs, rowStartIdx, rowEndIdx, idx) ==
    IF idx >= rowEndIdx \/ d.hung THEN d
    ELSE LET column == pos[idx + 1][2]
             rowNumber == pos[rowStartIdx + 1][1]
             posIdx == hs + idx
             d1 == [d EXCEPT !.C[posIdx] = column, !.RM[posIdx] = rowNumber]
             d2 == [d1 EXCEPT !.U[posIdx] = d1.U[column], !.D[posIdx] = column]
             d3 == [d2 EXCEPT !.D[d2.U[column]] = posIdx]
             d4 == [d3 EXCEPT !.U[column] = posIdx]
             d5 == [d4 EXCEPT !.S[column] = @ + 1]
             d6 == [d5 EXCEPT !.L[posIdx] = IF idx > rowStartIdx THEN posIdx - 1 ELSE posIdx,
                              !.R[posIdx] = rowStartIdx + hs]
             d7 == [d6 EXCEPT !.L[d6.R[posIdx]] = posIdx]
             d8 == [d7 EXCEPT !.R[d7.L[posIdx]] = posIdx]
         IN  LinkRow(d8, pos, hs, rowStartIdx, rowEndIdx, idx + 1)

\* The while loop over the rows: n more iterations from the loop state
\* w = [d, rowIdx].  The iterations are composed by halves, which keeps the
\* evaluation shallow on arenas of many rows.
RECURSIVE LinkRowsWalk(_, _, _, _)
LinkRowsWalk(w, pos, hs, n) ==
    IF w.rowIdx >= Len(pos) THEN w
    ELSE IF n <= 1
    THEN LET rowEndIdx == RowEnd(pos, pos[w.rowIdx + 1][1], w.rowIdx)
         IN  [d |-> LinkRow(w.d, pos, hs, w.rowIdx, rowEndIdx, w.rowIdx),
              rowIdx |-> rowEndIdx]
    ELSE LinkRowsWalk(LinkRowsWalk(w, pos, hs, n \div 2), pos, hs, n - (n \div 2))

LinkRows(d, pos, hs, rowIdx) ==
    LinkRowsWalk([d |-> d, rowIdx |-> rowIdx], pos, hs, Len(pos)).d

\* data d{} followed by the two header loops.
InitHeaders(nc, nn) ==
    LET hs == nc + 1
        all == 0 .. (nc + nn)
    IN  [ S  |-> [i \in 0 .. nc |-> 0],
          R  |-> [i \in all |-> IF i <= nc THEN (i + 1) % hs ELSE 0],
          L  |-> [i \in all |-> IF i <= nc THEN (i - 1 + hs) % hs ELSE 0],
          U  |-> [i \in all |-> IF i < hs THEN i ELSE 0],
          D  |-> [i \in all |-> IF i < hs THEN i ELSE 0],
          C  |-> [i \in all |-> IF i < hs THEN i ELSE 0],
          RM |-> [i \in all |-> IF i < hs THEN NumRows ELSE 0],
          hung |-> FALSE ]

\* Mutant: the cells are linked but the column sizes are not counted.
initNoSize(nc, pos) ==
    [LinkRows(InitHeaders(nc, Len(pos)), pos, nc + 1, 0) EXCEPT
        !.S = [i \in 0 .. nc |-> 0]]

init(nc, pos) == LinkRows(InitHeaders(nc, Len(pos)), pos, nc + 1, 0)

init_solution == [r \in 0 .. NumRows - 1 |-> FALSE]

----------------------------------------------------------------------------
(* find_solution *)

\* Mutant: a later column of equal size replaces the one chosen so far.
RECURSIVE SelectMinLast(_, _, _, _)
SelectMinLast(st, hd, w, n) ==
    IF w.i = hd THEN w
    ELSE IF n <= 1
    THEN [minColumnIndex |-> IF ~ULess(st.S[w.minColumnIndex], st.S[w.i])
                             THEN w.i ELSE w.minColumnIndex,
          i |-> st.R[w.i]]
    ELSE SelectMinLast(st, hd, SelectMinLast(st, hd, w, n \div 2), n - (n \div 2))

\* The column selection loop: n more iterations from the loop state
\* w = [minColumnIndex, i], composed by halves.
RECURSIVE SelectMin(_, _, _, _)
SelectMin(st, hd, w, n) ==
    IF w.i = hd THEN w
    ELSE IF n <= 1
    THEN [minColumnIndex |-> IF ULess(st.S[w.i], st.S[w.minColumnIndex])
                             THEN w.i ELSE w.minColumnIndex,
          i |-> st.R[w.i]]
    ELSE SelectMin(st, hd, SelectMin(st, hd, w, n \div 2), n - (n \div 2))

\* The chosen column; -1 when the walk never returns to the root.
ChooseColumn(st, hd) ==
    LET w == SelectMin(st, hd, [minColumnIndex |-> st.R[hd], i |-> st.R[st.R[hd]]],
                       Fuel(st))
    IN  IF w.i = hd THEN w.minColumnIndex ELSE -1

\* for (j = R[i]; j != i; j = R[j]) coverColumn(C[j])
RECURSIVE CoverOthers(_, _, _, _)
CoverOthers(st, i, j, fuel) ==
    IF j = i \/ st.hung THEN st
    ELSE IF fuel = 0 THEN Hung(st)
    ELSE LET s1 == coverColumn(st, st.C[j])
         IN  CoverOthers(s1, i, s1.R[j], fuel - 1)

\* for (j = L[i]; j != i; j = L[j]) uncoverColumn(C[j])
RECURSIVE UncoverOthers(_, _, _, _)
UncoverOthers(st, i, j, fuel) ==
    IF j = i \/ st.hung THEN st
    ELSE IF fuel = 0 THEN Hung(st)
    ELSE LET s1 == uncoverColumn(st, st.C[j])
         IN  UncoverOthers(s1, i, s1.L[j], fuel - 1)

\* The nesting beyond which the recursion is taken not to end: MaxDepth, or
\* on wider instances one call more than a healthy search can nest
\* (one per column and the call that finds the root ring empty).
DepthLimit == IF numCols + 2 > MaxDepth THEN numCols + 2 ELSE MaxDepth

Nullopt == [has |-> FALSE, val |-> init_solution]
Some(s) == [has |-> TRUE, val |-> s]

Frame(col, i, st, s) == [col |-> col, i |-> i, entry |-> st, entrySol |-> s]

Top == stack[Len(stack)]
Pop == SubSeq(stack, 1, Len(stack) - 1)

----------------------------------------------------------------------------
(* Inputs *)

RECURSIVE SortedSeq(_)
SortedSeq(T) ==
    IF T = {} THEN <<>>
    ELSE LET m == CHOOSE x \in T : \A y \in T : x <= y
         IN  <<m>> \o SortedSeq(T \ {m})

\* The positions of a 0/1 matrix with nc columns, sorted by row then column.
PositionsOf(T, nc) ==
    LET s == SortedSeq(T)
    IN  [k \in 1 .. Len(s) |-> <<s[k] \div nc, s[k] % nc>>]

WellFormed(pos, nc) ==
    /\ \A k \in 1 .. Len(pos) :
          /\ pos[k][1] \in 0 .. NumRows - 1
          /\ pos[k][2] \in 0 .. nc - 1
    /\ \A k \in 1 .. Len(pos) - 1 :
          \/ pos[k][1] < pos[k + 1][1]
          \/ pos[k][1] = pos[k + 1][1] /\ pos[k][2] < pos[k + 1][2]

SeqsUpTo(S, n) == UNION { [1 .. k -> S] : k \in 0 .. n }

\* A direct call of DLX::run, through no adapter.
Direct == [fn |-> "run"]

InitRest ==
    /\ state = InitHeaders(numCols, 0)
    /\ built = InitHeaders(numCols, 0)
    /\ sol = init_solution
    /\ stack = <<>>
    /\ pc = "run"
    /\ retval = Nullopt
    /\ nforced = 0
    /\ abandoned = 0

Init ==
    /\ adapter = Direct
    /\ numRows = MaxRows
    /\ numCols \in 0 .. MaxCols
    /\ \E T \in SUBSET (0 .. NumRows * numCols - 1) :
          /\ Cardinality(T) <= MaxNodes
          /\ positions = PositionsOf(T, numCols)
    /\ forced \in SeqsUpTo(0 .. Len(positions) - 1, MaxForced)
    /\ forced # <<>> => Len(positions) <= MaxForcedNodes
    /\ InitRest

----------------------------------------------------------------------------
(* run *)

\* run: init(positions) and init_solution().
Build ==
    /\ pc = "run"
    /\ state' = init(numCols, positions)
    /\ built' = init(numCols, positions)
    /\ sol' = init_solution
    /\ pc' = IF forced = <<>> THEN "call" ELSE "force"
    /\ UNCHANGED <<adapter, numCols, numRows, positions, forced, stack, retval, nforced, abandoned>>

\* One iteration of the loop over fixed_rows: useRow(state, row + HeaderSize, sol).
ForceRow ==
    /\ pc = "force"
    /\ LET rowIdx == forced[nforced + 1] + HeaderSize
           st == useRow(state, rowIdx)
       IN  /\ sol' = useRowSol(state, rowIdx, sol)
           /\ state' = st
           /\ nforced' = nforced + 1
           /\ pc' = IF st.hung THEN "hang"
                    ELSE IF nforced + 1 = Len(forced) THEN "call" ELSE "force"
    /\ UNCHANGED <<adapter, numCols, numRows, positions, forced, stack, retval, built, abandoned>>

\* Mutant: an empty root ring is reported as no-solution.
CallSolvedAbsent ==
    /\ pc = "call"
    /\ Len(stack) < DepthLimit
    /\ state.R[header] = header
    /\ stack' = Append(stack, Frame(header, header, state, sol))
    /\ retval' = Nullopt
    /\ pc' = "ret"
    /\ UNCHANGED <<adapter, numCols, numRows, positions, forced, state, sol, built, nforced, abandoned>>

\* find_solution is entered and the root ring is empty: return sol.
CallSolved ==
    /\ pc = "call"
    /\ Len(stack) < DepthLimit
    /\ state.R[header] = header
    /\ stack' = Append(stack, Frame(header, header, state, sol))
    /\ retval' = Some(sol)
    /\ pc' = "ret"
    /\ UNCHANGED <<adapter, numCols, numRows, positions, forced, state, sol, built, nforced, abandoned>>

\* find_solution is entered and the chosen column has no rows: return nullopt.
CallDeadEnd ==
    /\ pc = "call"
    /\ Len(stack) < DepthLimit
    /\ state.R[header] # header
    /\ LET c == ChooseColumn(state, header)
       IN  /\ c # -1
           /\ c = header \/ state.S[c] = 0
           /\ stack' = Append(stack, Frame(c, c, state, sol))
    /\ retval' = Nullopt
    /\ pc' = "ret"
    /\ UNCHANGED <<adapter, numCols, numRows, positions, forced, state, sol, built, nforced, abandoned>>

\* Mutant: the candidate loop starts from the last cell of the column.
CallDescendFromLast ==
    /\ pc = "call"
    /\ Len(stack) < DepthLimit
    /\ state.R[header] # header
    /\ LET c == ChooseColumn(state, header)
           st == coverColumn(state, c)
       IN  IF c = -1
           THEN /\ pc' = "hang"
                /\ UNCHANGED <<state, stack>>
           ELSE /\ ~(c = header \/ state.S[c] = 0)
                /\ state' = st
                /\ stack' = Append(stack, Frame(c, st.U[c], state, sol))
                /\ pc' = IF st.hung THEN "hang" ELSE "loop"
    /\ UNCHANGED <<adapter, numCols, numRows, positions, forced, sol, retval, built, nforced, abandoned>>

\* find_solution is entered, chooses a column and covers it.
CallDescend ==
    /\ pc = "call"
    /\ Len(stack) < DepthLimit
    /\ state.R[header] # header
    /\ LET c == ChooseColumn(state, header)
           st == coverColumn(state, c)
       IN  IF c = -1
           THEN /\ pc' = "hang"
                /\ UNCHANGED <<state, stack>>
           ELSE /\ ~(c = header \/ state.S[c] = 0)
                /\ state' = st
                /\ stack' = Append(stack, Frame(c, st.D[c], state, sol))
                /\ pc' = IF st.hung THEN "hang" ELSE "loop"
    /\ UNCHANGED <<adapter, numCols, numRows, positions, forced, sol, retval, built, nforced, abandoned>>

\* The recursion does not bottom out: the call stack is exhausted.
CallOverflow ==
    /\ pc = "call"
    /\ Len(stack) >= DepthLimit
    /\ pc' = "overflow"
    /\ UNCHANGED <<adapter, numCols, numRows, positions, forced, state, sol, stack, retval, built, nforced, abandoned>>

\* Mutant: the candidate row is not marked in the solution.
TryRowNoMark ==
    /\ pc = "loop"
    /\ Top.i # Top.col
    /\ LET i == Top.i
           st == CoverOthers(state, i, state.R[i], Fuel(state))
       IN  /\ sol' = sol
           /\ state' = st
           /\ pc' = IF st.hung THEN "hang" ELSE "call"
    /\ UNCHANGED <<adapter, numCols, numRows, positions, forced, stack, retval, built, nforced, abandoned>>

\* Mutant: the candidate row is marked but its other columns stay uncovered.
TryRowNoCover ==
    /\ pc = "loop"
    /\ Top.i # Top.col
    /\ sol' = [sol EXCEPT ![state.RM[Top.i]] = TRUE]
    /\ pc' = "call"
    /\ UNCHANGED <<adapter, numCols, numRows, positions, forced, state, stack, retval, built, nforced, abandoned>>

\* The candidate loop takes row i: mark it, cover its other columns, recurse.
TryRow ==
    /\ pc = "loop"
    /\ Top.i # Top.col
    /\ LET i == Top.i
           st == CoverOthers(state, i, state.R[i], Fuel(state))
       IN  /\ sol' = [sol EXCEPT ![state.RM[i]] = TRUE]
           /\ state' = st
           /\ pc' = IF st.hung THEN "hang" ELSE "call"
    /\ UNCHANGED <<adapter, numCols, numRows, positions, forced, stack, retval, built, nforced, abandoned>>

\* Mutant: the candidate loop is exhausted and nullopt is returned with the
\* chosen column still covered.
ExhaustedNoUncover ==
    /\ pc = "loop"
    /\ Top.i = Top.col
    /\ pc' = "ret"
    /\ retval' = Nullopt
    /\ UNCHANGED <<adapter, numCols, numRows, positions, forced, state, sol, stack, built, nforced, abandoned>>

\* The candidate loop is exhausted: uncover the column, return nullopt.
Exhausted ==
    /\ pc = "loop"
    /\ Top.i = Top.col
    /\ LET st == uncoverColumn(state, Top.col)
       IN  /\ state' = st
           /\ pc' = IF st.hung THEN "hang" ELSE "ret"
    /\ retval' = Nullopt
    /\ UNCHANGED <<adapter, numCols, numRows, positions, forced, sol, stack, built, nforced, abandoned>>

\* The outermost find_solution returns to run, which returns its value.
ReturnToRun ==
    /\ pc = "ret"
    /\ Len(stack) = 1
    /\ stack' = <<>>
    /\ pc' = "done"
    /\ UNCHANGED <<adapter, numCols, numRows, positions, forced, state, sol, retval, built, nforced, abandoned>>

\* A nested call returned a solution: the caller returns it at once.
ReturnSolution ==
    /\ pc = "ret"
    /\ Len(stack) > 1
    /\ retval.has
    /\ stack' = Pop
    /\ UNCHANGED <<adapter, numCols, numRows, positions, forced, state, sol, pc, retval, built, nforced, abandoned>>

\* Mutant: after the first candidate fails the caller gives up on the column.
ReturnBacktrackGiveUp ==
    /\ pc = "ret"
    /\ Len(stack) > 1
    /\ ~retval.has
    /\ LET fr == stack[Len(stack) - 1]
           i == fr.i
           st == UncoverOthers(state, i, state.L[i], Fuel(state))
       IN  /\ sol' = [sol EXCEPT ![state.RM[i]] = FALSE]
           /\ state' = st
           /\ stack' = [Pop EXCEPT ![Len(stack) - 1].i = fr.col]
           /\ pc' = IF st.hung THEN "hang" ELSE "loop"
    /\ abandoned' = abandoned + 1
    /\ UNCHANGED <<adapter, numCols, numRows, positions, forced, retval, built, nforced>>

\* A nested call returned nullopt: the caller undoes row i and steps to D[i].
ReturnBacktrack ==
    /\ pc = "ret"
    /\ Len(stack) > 1
    /\ ~retval.has
    /\ LET fr == stack[Len(stack) - 1]
           i == fr.i
           st == UncoverOthers(state, i, state.L[i], Fuel(state))
       IN  /\ sol' = [sol EXCEPT ![state.RM[i]] = FALSE]
           /\ state' = st
           /\ stack' = [Pop EXCEPT ![Len(stack) - 1].i = st.D[i]]
           /\ pc' = IF st.hung THEN "hang" ELSE "loop"
    /\ abandoned' = abandoned + 1
    /\ UNCHANGED <<adapter, numCols, numRows, positions, forced, retval, built, nforced>>

Next ==
    \/ Build
    \/ ForceRow
    \/ CallSolved
    \/ CallDeadEnd
    \/ CallDescend
    \/ CallOverflow
    \/ TryRow
    \/ Exhausted
    \/ ReturnToRun
    \/ ReturnSolution
    \/ ReturnBacktrack

Spec == Init /\ [][Next]_vars

\* run has not ended: Next has a step exactly in these states.
Running == pc \in {"run", "force", "call", "loop", "ret"}

\* A step of run that moves it to another place of the code.
Progress ==
    Running /\ pc' \in {"run", "force", "call", "loop", "ret", "done", "hang", "overflow"}

\* run is one sequential computation: while it has a step to take it takes
\* one (weak fairness of Next).  ForceRow and ReturnSolution, the steps of
\* Next that leave pc alone, can only be taken finitely often in a row (they
\* count nforced up to Len(forced) and the stack down to one frame), so the
\* condition is stated on the steps that change pc.
SpecLive == Init /\ [][Next]_vars /\ WF_pc(Progress)

\* Callers that pass positions in any order (rows and columns in range).
InitRaw ==
    /\ adapter = Direct
    /\ numRows = MaxRows
    /\ numCols \in 1 .. MaxCols
    /\ positions \in SeqsUpTo((0 .. NumRows - 1) \X (0 .. numCols - 1), MaxRawLen)
    /\ forced \in {<<>>} \cup {<<0>> : k \in 1 .. Len(positions)}
    /\ InitRest

\* Any caller: the well-formed inputs of Init and the unsorted ones.
SpecRaw == (Init \/ InitRaw) /\ [][Next]_vars

\* Callers of the second overload that pass MaxLongForced fixed rows.
InitLongForced ==
    /\ adapter = Direct
    /\ numRows = MaxRows
    /\ numCols = MaxCols
    /\ \E T \in SUBSET (0 .. NumRows * numCols - 1) :
          /\ Cardinality(T) <= MaxLongNodes
          /\ positions = PositionsOf(T, numCols)
    /\ forced \in [1 .. MaxLongForced -> 0 .. Len(positions) - 1]
    /\ InitRest

\* The inputs of Init and the longer fixed_rows lists.
SpecLongForced == (Init \/ InitLongForced) /\ [][Next]_vars

----------------------------------------------------------------------------
(* Combinatorial functions of the t-design adapter (cmath) *)

\* factype is unsigned long long, kept like size_t in two's complement.
RECURSIVE nCrTimes(_, _, _)
nCrTimes(f, i, bigger) ==
    IF ULess(bigger, i) THEN nCrTimes(f * i, i - 1, bigger) ELSE f

RECURSIVE nCrDivide(_, _)
nCrDivide(f, i) ==
    IF i >= 1 THEN nCrDivide(f \div i, i - 1) ELSE f

nCr(n, r) ==
    IF ULess(n, r) THEN 0
    ELSE LET bigger == IF ULess(r, n - r) THEN n - r ELSE r
         IN  nCrDivide(nCrTimes(1, n, bigger), n - bigger)

\* A k-set is the std::array<factype, k>, here the sequence kset[1..k] of
\* the array's entries 0..k-1.
RECURSIVE RankFrom(_, _, _, _, _)
RankFrom(v, k, kset, r, i) ==
    IF i < k THEN RankFrom(v, k, kset, r - nCr(v - kset[i + 1] - 1, k - i), i + 1)
    ELSE r

\* Mutant: the rank counts from 1.
rankKSubsetFromOne(v, k, kset) == RankFrom(v, k, kset, nCr(v, k), 0)

rankKSubset(v, k, kset) == RankFrom(v, k, kset, nCr(v, k), 0) - 1

\* while (s > vi - nCr(j, ki)) --j;
RECURSIVE UnrankSkip(_, _, _, _)
UnrankSkip(s, vi, j, ki) ==
    IF ULess(vi - nCr(j, ki), s) THEN UnrankSkip(s, vi, j - 1, ki) ELSE j

\* The for loop of unrankKSubset, from iteration i on.
RECURSIVE UnrankFrom(_, _, _, _, _, _, _, _)
UnrankFrom(v, k, kset, vi, j, ki, s, i) ==
    IF i < k - 1
    THEN LET j1 == UnrankSkip(s, vi, j, ki)
             s1 == s + nCr(j1 + 1, ki) - vi
         IN  UnrankFrom(v, k, [kset EXCEPT ![i + 1] = v - j1 - 1],
                        nCr(j1, ki - 1), j1, ki - 1, s1, i + 1)
    ELSE [kset EXCEPT ![k] = v + s - vi - 1]

unrankKSubset(v, k, rank) ==
    UnrankFrom(v, k, [x \in 1 .. k |-> 0], nCr(v, k), v, k, rank + 1, 0)

\* Mutant: the entries after the incremented one are left as they were.
SuccResetKeep(k, kset, i) == kset

\* The inner for loop of succKSubset: kset[j] = kset[i] + j - i for j > i.
SuccReset(k, kset, i) ==
    [x \in 1 .. k |-> IF x - 1 > i THEN kset[i + 1] + (x - 1) - i ELSE kset[x]]

\* The outer loop of succKSubset, at index i (0-based).  The loop has no lower
\* end (i is unsigned): stepping below 0 writes outside the array, any result.
RECURSIVE SuccFrom(_, _, _, _)
SuccFrom(v, k, kset, i) ==
    IF i < 0 THEN [undefined |-> TRUE]
    ELSE LET ks == [kset EXCEPT ![i + 1] = @ + 1]
         IN  IF ULess(ks[i + 1], v) /\ ~ULess(v, ks[i + 1] + (k - i))
             THEN SuccReset(k, ks, i)
             ELSE SuccFrom(v, k, ks, i - 1)

succKSubset(v, k, kset) == SuccFrom(v, k, kset, k - 1)

\* The node written by iteration (row, col) of the two loops of
\* makeDesignPositions.
\* Mutant: the t-set is ranked among the t-subsets of a k-set, not of [v].
DesignNodeRankInK(v, k, t, row, col) ==
    LET kset == unrankKSubset(v, k, row)
        tsetIdx == unrankKSubset(k, t, col)
        tset == [i \in 1 .. t |-> kset[tsetIdx[i] + 1]]
    IN  <<row, rankKSubset(k, t, tset)>>

DesignNode(v, k, t, row, col) ==
    LET kset == unrankKSubset(v, k, row)
        tsetIdx == unrankKSubset(k, t, col)
        tset == [i \in 1 .. t |-> kset[tsetIdx[i] + 1]]
    IN  <<row, rankKSubset(v, t, tset)>>

makeDesignPositions(v, k, t) ==
    LET rows == nCr(v, k)
        nodes_per_row == nCr(k, t)
    IN  [node \in 1 .. rows * nodes_per_row |->
            DesignNode(v, k, t, (node - 1) \div nodes_per_row, (node - 1) % nodes_per_row)]

----------------------------------------------------------------------------
(* The test instances (TestSmallCover.cpp, TestSteinerTripleSystem.cpp) *)

MaxChain == 10
MaxV == 7
MaxDesignNodes == 105
MaxRowWidth == 6

\* "Small exact cover 2" for n columns: rows 0..n-2, row i covers {i, i+1}.
ChainPositions(n) ==
    [x \in 1 .. 2 * (n - 1) |-> <<(x - 1) \div 2, ((x - 1) \div 2) + ((x - 1) % 2)>>]

InitChain ==
    /\ adapter = Direct
    /\ numCols \in 2 .. MaxChain
    /\ numRows = numCols - 1
    /\ positions = ChainPositions(numCols)
    /\ forced = <<>>
    /\ InitRest

\* run_t_design<v, k, t>()
InitDesign ==
    /\ \E v \in 1 .. MaxV : \E k \in 1 .. v : \E t \in 1 .. k :
          /\ nCr(v, k) * nCr(k, t) <= MaxDesignNodes
          /\ nCr(k, t) <= MaxRowWidth
          /\ adapter = [fn |-> "run_t_design", v |-> v, k |-> k, t |-> t]
          /\ numCols = nCr(v, t)
          /\ numRows = nCr(v, k)
          /\ positions = makeDesignPositions(v, k, t)
    /\ forced = <<>>
    /\ InitRest

\* DLX::run(positions): init, init_solution and the search.
NextSearch ==
    \/ Build
    \/ CallSolved
    \/ CallDeadEnd
    \/ CallDescend
    \/ TryRow
    \/ Exhausted
    \/ ReturnToRun
    \/ ReturnSolution
    \/ ReturnBacktrack

SpecTests == (InitChain \/ InitDesign) /\ [][NextSearch]_vars

----------------------------------------------------------------------------
(* The Sudoku adapter (sudoku, TestSudoku.h) *)

\* Mutant: the first family is indexed by the digit count, not by the digit.
SudokuColumnByCount(N, i, j, n, which) ==
    LET rows == N * N
        cols == N * N
        digits == N * N
        rowIndices == i * rows + digits
        offset1 == rows * digits
        colIndices == j * cols + n + offset1
        offset2 == offset1 + cols * digits
        gridIndices == (((i \div N) * N + (j \div N)) * digits + n) + offset2
        offset3 == offset2 + N * N * digits
        occupancy == i * rows + j + offset3
    IN  CASE which = 0 -> rowIndices
          [] which = 1 -> colIndices
          [] which = 2 -> gridIndices
          [] OTHER -> occupancy

\* makeSudokuPositions<N>: the column of the entry `which` (0..3) of the DLX
\* row for digit n (0-based) in cell (i, j).
SudokuColumn(N, i, j, n, which) ==
    LET rows == N * N
        cols == N * N
        digits == N * N
        rowIndices == i * rows + n
        offset1 == rows * digits
        colIndices == j * cols + n + offset1
        offset2 == offset1 + cols * digits
        \* position++ in the loops over x, y, n
        gridIndices == (((i \div N) * N + (j \div N)) * digits + n) + offset2
        offset3 == offset2 + N * N * digits
        occupancy == i * rows + j + offset3
    IN  CASE which = 0 -> rowIndices
          [] which = 1 -> colIndices
          [] which = 2 -> gridIndices
          [] OTHER -> occupancy

\* The array filled by the loops over i, j, n, which count the DLX row up.
makeSudokuPositions(N) ==
    LET cols == N * N
        digits == N * N
    IN  [node \in 1 .. 4 * (N * N) * cols * digits |->
            LET row == (node - 1) \div 4
                i == row \div (cols * digits)
                j == (row \div digits) % cols
                n == row % digits
            IN  <<row, SudokuColumn(N, i, j, n, (node - 1) % 4)>>]

\* toRow<N>: a fixing is the triple <<row, col, digit>>.
toRow(N, assignment) ==
    LET cols == N * N
        digits == N * N
    IN  4 * (assignment[1] * cols * digits + assignment[2] * digits + assignment[3] - 1)

\* makeFixedCells(fixing_array)
makeFixedCells(N, fixed) == [x \in 1 .. Len(fixed) |-> toRow(N, fixed[x])]

\* Character codes and the literals of makeFixedCells(string_view).
Char0 == 48
CharUpperA == 65
CharUpperZ == 90
CharLowerA == 97
CharLowerZ == 122
BoardCells == 81
BoardSide == 9

cToUpper(c) ==
    IF c >= CharLowerA /\ c <= CharLowerZ THEN c - CharLowerA + CharUpperA ELSE c

\* The cells the string version reads.
StringCells(N) == BoardCells

\* The side by which the string version splits a cell index.
StringSide(N) == BoardSide

\* One iteration of the loop of makeFixedCells(string_view). w is
\* [rows, pos, i, overrun]; rows is 1-based, overrun records a write past the
\* end of rows. A read past the end of sv yields fill.
FixCell(w, N, sv, fill) ==
    LET ch == IF w.i < Len(sv) THEN sv[w.i + 1] ELSE fill
        c == cToUpper(ch)
        val == IF c >= CharUpperA /\ c <= CharUpperZ THEN c + 10 - CharUpperA ELSE c - Char0
        row == toRow(N, <<w.i \div StringSide(N), w.i % StringSide(N), val>>)
    IN  IF ch = Char0
        THEN [w EXCEPT !.i = w.i + 1]
        ELSE IF w.pos < Len(w.rows)
        THEN [rows |-> [w.rows EXCEPT ![w.pos + 1] = row], pos |-> w.pos + 1,
              i |-> w.i + 1, overrun |-> w.overrun]
        ELSE [w EXCEPT !.pos = w.pos + 1, !.i = w.i + 1, !.overrun = TRUE]

\* n iterations of the loop, composed by halves.
RECURSIVE FixCells(_, _, _, _, _)
FixCells(w, N, sv, fill, n) ==
    IF w.i >= StringCells(N) THEN w
    ELSE IF n <= 1 THEN FixCell(w, N, sv, fill)
    ELSE FixCells(FixCells(w, N, sv, fill, n \div 2), N, sv, fill, n - (n \div 2))

\* makeFixedCells<NumFixedRows, N>(sv)
makeFixedCellsOfString(NumFixedRows, N, sv, fill) ==
    FixCells([rows |-> [x \in 1 .. NumFixedRows |-> 0], pos |-> 0, i |-> 0,
              overrun |-> FALSE], N, sv, fill, StringCells(N))

\* Mutant: the digit is written as its index 0..N^2-1.
extractBoardFromZero(N, s) ==
    LET side == N * N
        N4 == side * side
        N6 == side * N4
    IN  [row \in 0 .. side - 1 |-> [col \in 0 .. side - 1 |->
            LET I == { i \in 0 .. N6 - 1 :
                         s[i] /\ i \div N4 = row /\ (i % N4) \div side = col }
            IN  IF I = {} THEN 0
                ELSE LET i == CHOOSE x \in I : \A y \in I : y <= x
                     IN  (i % N4) % side]]

\* extractBoard<N>: b{} is all zero; every selected DLX row writes its cell,
\* in increasing order of i, so the last one stays.
extractBoard(N, s) ==
    LET side == N * N
        N4 == side * side
        N6 == side * N4
    IN  [row \in 0 .. side - 1 |-> [col \in 0 .. side - 1 |->
            LET I == { i \in 0 .. N6 - 1 :
                         s[i] /\ i \div N4 = row /\ (i % N4) \div side = col }
            IN  IF I = {} THEN 0
                ELSE LET i == CHOOSE x \in I : \A y \in I : y <= x
                     IN  ((i % N4) % side) + 1]]

MaxOrder == 2
MaxGivens == 2
MaxGivenSide == 2

\* The fixings of the cells of the top-left corner of the board.
Fixings(N) ==
    LET side == IF N * N < MaxGivenSide THEN N * N ELSE MaxGivenSide
    IN  (0 .. side - 1) \X (0 .. side - 1) \X (1 .. N * N)

\* The number of the DLX row of the digit d in the cell (i, j).
force(N, assignment) ==
    assignment[1] * N * N * N * N + assignment[2] * N * N + (assignment[3] - 1)

\* DLX<4N^4, N^6, 4N^6>::run(makeSudokuPositions<N>(), fixed_rows), where
\* fixed_rows is makeFixedCells<NumFixedRows, N>(fixed), as runSudoku passes
\* it, or the list of the row numbers of the givens, made by the caller.
InitRunSudoku ==
    /\ \E N \in 1 .. MaxOrder : \E fixed \in SeqsUpTo(Fixings(N), MaxGivens) :
       \E via \in {"toRow", "force"} :
          /\ adapter = [fn |-> "runSudoku", N |-> N, fixed |-> fixed, via |-> via,
                        step |-> "run"]
          /\ numCols = 4 * (N * N * N * N)
          /\ numRows = (N * N) * (N * N) * (N * N)
          /\ positions = makeSudokuPositions(N)
          /\ forced = IF via = "toRow" THEN makeFixedCells(N, fixed)
                      ELSE [x \in 1 .. Len(fixed) |-> force(N, fixed[x])]
    /\ InitRest

\* extractBoard<N>(*sol) on the solution run returned.
Extract ==
    /\ pc = "done"
    /\ adapter.fn = "runSudoku" /\ adapter.step = "run"
    /\ retval.has
    /\ adapter' = [fn |-> "runSudoku", N |-> adapter.N, fixed |-> adapter.fixed,
                   via |-> adapter.via, step |-> "extracted",
                   board |-> extractBoard(adapter.N, retval.val)]
    /\ UNCHANGED <<numCols, numRows, positions, forced, state, sol, stack, pc, retval,
                   built, nforced, abandoned>>

\* DLX::run(positions, fixed_rows): the forcing loop and the search.
NextForced ==
    \/ NextSearch
    \/ ForceRow

NextSudoku ==
    \/ NextForced
    \/ Extract

SpecSudoku == InitRunSudoku /\ [][NextSudoku]_vars

----------------------------------------------------------------------------
(* The adapter functions called on their own (the unit tests) *)

MaxPoints == 10

\* No DLX run is under way.
NoRun ==
    /\ numCols = 0
    /\ numRows = 0
    /\ positions = <<>>
    /\ forced = <<>>
    /\ InitRest

\* The k-subset of [v] of rank rk is unranked, then ranked or succeeded.
InitSubsets ==
    /\ \E v \in 1 .. MaxPoints : \E k \in 1 .. v : \E rk \in 0 .. nCr(v, k) - 1 :
          adapter = [fn |-> "subsets", v |-> v, k |-> k, rk |-> rk, step |-> "start"]
    /\ NoRun

InitMakeDesign ==
    /\ \E v \in 1 .. MaxV : \E k \in 1 .. v : \E t \in 1 .. k :
          adapter = [fn |-> "makeDesignPositions", v |-> v, k |-> k, t |-> t,
                     step |-> "start"]
    /\ NoRun

InitMakeSudoku ==
    /\ \E N \in 1 .. MaxOrder :
          adapter = [fn |-> "makeSudokuPositions", N |-> N, step |-> "start"]
    /\ NoRun

DlxVars == <<numCols, numRows, positions, forced, state, sol, stack, pc, retval, built,
             nforced, abandoned>>

\* unrankKSubset<v, k>(rk)
Unrank ==
    /\ adapter.fn = "subsets" /\ adapter.step = "start"
    /\ adapter' = [fn |-> "subsets", v |-> adapter.v, k |-> adapter.k, rk |-> adapter.rk,
                   step |-> "unranked",
                   kset |-> unrankKSubset(adapter.v, adapter.k, adapter.rk)]
    /\ UNCHANGED DlxVars

\* rankKSubset<v, k>(kset)
Rank ==
    /\ adapter.fn = "subsets" /\ adapter.step = "unranked"
    /\ adapter' = [fn |-> "subsets", v |-> adapter.v, k |-> adapter.k, rk |-> adapter.rk,
                   step |-> "ranked", kset |-> adapter.kset,
                   rank |-> rankKSubset(adapter.v, adapter.k, adapter.kset)]
    /\ UNCHANGED DlxVars

\* succKSubset<v, k>(kset), called when the k-set has a successor.
Succ ==
    /\ adapter.fn = "subsets" /\ adapter.step = "unranked"
    /\ adapter.rk + 1 < nCr(adapter.v, adapter.k)
    /\ adapter' = [fn |-> "subsets", v |-> adapter.v, k |-> adapter.k, rk |-> adapter.rk,
                   step |-> "succeeded", kset |-> adapter.kset,
                   succ |-> succKSubset(adapter.v, adapter.k, adapter.kset)]
    /\ UNCHANGED DlxVars

\* makeDesignPositions<v, k, t>()
MakeDesign ==
    /\ adapter.fn = "makeDesignPositions" /\ adapter.step = "start"
    /\ adapter' = [fn |-> "makeDesignPositions", v |-> adapter.v, k |-> adapter.k,
                   t |-> adapter.t, step |-> "made",
                   out |-> makeDesignPositions(adapter.v, adapter.k, adapter.t)]
    /\ UNCHANGED DlxVars

\* makeSudokuPositions<N>()
MakeSudoku ==
    /\ adapter.fn = "makeSudokuPositions" /\ adapter.step = "start"
    /\ adapter' = [fn |-> "makeSudokuPositions", N |-> adapter.N, step |-> "made",
                   out |-> makeSudokuPositions(adapter.N)]
    /\ UNCHANGED DlxVars

MaxStringOrder == 4
MaxStringGivens == 2
MaxStringCell == 9

\* The character of digit d: '1'..'9', then 'A', 'B', ...
DigitChar(d) == IF d <= 9 THEN Char0 + d ELSE CharUpperA + d - 10

\* The board string of order N that holds the givens and '0' elsewhere.
BoardString(N, givens) ==
    [x \in 1 .. N * N * N * N |->
        LET G == { y \in 1 .. Len(givens) :
                     givens[y][1] * N * N + givens[y][2] = x - 1 }
        IN  IF G = {} THEN Char0 ELSE DigitChar(givens[CHOOSE y \in G : TRUE][3])]

\* The cell index of a triple (i, j, d).
CellOf(N, g) == g[1] * N * N + g[2]

\* The triples of the cells 0..MaxStringCell of a board of order N.
StringFixings(N) ==
    LET side == N * N
        last == IF side * side - 1 < MaxStringCell THEN side * side - 1 ELSE MaxStringCell
    IN  { <<c \div side, c % side, d>> : c \in 0 .. last, d \in 1 .. side }

\* A board of order N with at most MaxStringGivens givens among the cells
\* 0..MaxStringCell, as its triples in row-major order and as its string.
InitFixedCells ==
    /\ \E N \in 1 .. MaxStringOrder :
       \E givens \in SeqsUpTo(StringFixings(N), MaxStringGivens) :
          /\ \A x \in 1 .. Len(givens) - 1 :
                CellOf(N, givens[x]) < CellOf(N, givens[x + 1])
          /\ adapter = [fn |-> "makeFixedCells", N |-> N, fixings |-> givens,
                        board |-> BoardString(N, givens), step |-> "start"]
    /\ NoRun

\* f1 = makeFixedCells(fixings)
FixFromTriples ==
    /\ adapter.fn = "makeFixedCells" /\ adapter.step = "start"
    /\ adapter' = [fn |-> "makeFixedCells", N |-> adapter.N, fixings |-> adapter.fixings,
                   board |-> adapter.board, step |-> "triples",
                   f1 |-> makeFixedCells(adapter.N, adapter.fixings)]
    /\ UNCHANGED DlxVars

\* f2 = makeFixedCells<NumFixedRows, N>(board). What is read past the end of
\* a board shorter than the cells read is whatever follows it in memory:
\* either '0', which is skipped, or '1', which is taken as a given.
FixFromString ==
    /\ adapter.fn = "makeFixedCells" /\ adapter.step = "triples"
    /\ \E fill \in {Char0, Char0 + 1} :
          LET w == makeFixedCellsOfString(Len(adapter.fixings), adapter.N,
                                          adapter.board, fill)
          IN  adapter' = [fn |-> "makeFixedCells", N |-> adapter.N,
                          fixings |-> adapter.fixings, board |-> adapter.board,
                          step |-> "string", f1 |-> adapter.f1, f2 |-> w.rows,
                          overrun |-> w.overrun]
    /\ UNCHANGED DlxVars

NextFixedCells ==
    \/ FixFromTriples
    \/ FixFromString

SpecFixedCells == InitFixedCells /\ [][NextFixedCells]_vars

NextAdapters ==
    \/ Unrank
    \/ Rank
    \/ Succ
    \/ MakeDesign
    \/ MakeSudoku

SpecAdapters ==
    (InitSubsets \/ InitMakeDesign \/ InitMakeSudoku) /\ [][NextAdapters]_vars

----------------------------------------------------------------------------
(* Vocabulary of the properties *)

Rows == 0 .. NumRows - 1
Cols == 0 .. numCols - 1
PosSet == { positions[k] : k \in 1 .. Len(positions) }

\* The rows of X with a position in column c.
Covering(X, c) == { r \in X : <<r, c>> \in PosSet }
IsExactCover(X) == \A c \in Cols : Cardinality(Covering(X, c)) = 1
Chosen(v) == { r \in Rows : v[r] }
ExistsCoverWith(F) == \E X \in SUBSET Rows : F \subseteq X /\ IsExactCover(X)

\* The row of the position a fixed_rows entry addresses.
RowOfEntry(k) == positions[forced[k] + 1][1]
ForcedRowSet == { RowOfEntry(k) : k \in 1 .. Len(forced) }
ShareColumn(r1, r2) == \E c \in Cols : <<r1, c>> \in PosSet /\ <<r2, c>> \in PosSet

\* The entries address pairwise distinct, pairwise column-disjoint rows.
ForcedDisjoint ==
    \A k1, k2 \in 1 .. Len(forced) :
        k1 # k2 => /\ RowOfEntry(k1) # RowOfEntry(k2)
                   /\ ~ShareColumn(RowOfEntry(k1), RowOfEntry(k2))

\* fixed_rows read as row numbers: every entry is the number of a row that
\* has positions.
TagsAreRows ==
    \A k \in 1 .. Len(forced) :
        forced[k] \in Rows /\ \E c \in Cols : <<forced[k], c>> \in PosSet
TagSet == { forced[k] : k \in 1 .. Len(forced) }
TagsDisjoint ==
    \A k1, k2 \in 1 .. Len(forced) :
        k1 # k2 => /\ forced[k1] # forced[k2]
                   /\ ~ShareColumn(forced[k1], forced[k2])

Returned == pc = "done"

----------------------------------------------------------------------------
(* Claims *)

\* C1 (cover completeness): when run(positions) returns a solution vector v,
\* every column has exactly one row r with v[r] true and a position (r, c).
Thm_C1 ==
    (Returned /\ forced = <<>> /\ retval.has) => IsExactCover(Chosen(retval.val))

\* A returned cover of three columns made of at least two rows.
Wit_C1 ==
    /\ Returned /\ forced = <<>> /\ retval.has
    /\ numCols = 3
    /\ Cardinality(Chosen(retval.val)) >= 2
    /\ Len(positions) >= 5

\* C2 (search completeness): run(positions) returns, and it returns a solution
\* exactly when some family of rows covers every column exactly once.
Thm_C2 ==
    forced = <<>> =>
        /\ pc \notin {"hang", "overflow"}
        /\ Returned => (retval.has <=> ExistsCoverWith({}))

\* A solution returned after at least one candidate row was tried and undone.
Wit_C2 ==
    Returned /\ forced = <<>> /\ retval.has /\ abandoned >= 1

CE_C4 ==
    (TagsAreRows /\ TagsDisjoint) =>
        /\ pc \notin {"hang", "overflow"}
        /\ Returned =>
              IF ExistsCoverWith(TagSet)
              THEN /\ retval.has
                   /\ IsExactCover(Chosen(retval.val))
                   /\ TagSet \subseteq Chosen(retval.val)
              ELSE ~retval.has

\* C4 (amended): when the entries of fixed_rows are position indices that
\* address pairwise distinct, pairwise column-disjoint rows, run returns an
\* exact cover containing those rows when one exists and absent otherwise.
Thm_C4 ==
    ForcedDisjoint =>
        /\ pc \notin {"hang", "overflow"}
        /\ Returned =>
              IF ExistsCoverWith(ForcedRowSet)
              THEN /\ retval.has
                   /\ IsExactCover(Chosen(retval.val))
                   /\ ForcedRowSet \subseteq Chosen(retval.val)
              ELSE ~retval.has

\* A cover returned that extends two forced rows by a row the search chose.
Wit_C4 ==
    /\ Returned /\ retval.has /\ ForcedDisjoint
    /\ Len(forced) = 2
    /\ Chosen(retval.val) # ForcedRowSet

\* C5: two forced rows that share a column make run return absent.  Stated
\* for entries that are at once the row number and the index of a position
\* of that row, so that both readings of fixed_rows name the same rows.
CE_C5 ==
    ( /\ Returned
      /\ TagsAreRows
      /\ \A k \in 1 .. Len(forced) : RowOfEntry(k) = forced[k]
      /\ \E k1, k2 \in 1 .. Len(forced) :
            forced[k1] # forced[k2] /\ ShareColumn(forced[k1], forced[k2]) )
    => ~retval.has


\* C7 as stated: for positions that are not sorted by row then column the
\* builder fails: no arena is returned and no search is started.
CE_C7 ==
    ~WellFormed(positions, numCols) => pc = "run"

\* What init leaves for the k-th position (0-based) and for column c.
BuiltCell(k) ==
    /\ built.C[HeaderSize + k] = positions[k + 1][2]
    /\ built.RM[HeaderSize + k] = positions[k + 1][1]
BuiltSize(c) ==
    built.S[c] = Cardinality({ k \in 1 .. Len(positions) : positions[k][2] = c })

\* C7 (amended): for positions that are not sorted by row then column (rows
\* and columns in range) init makes no check and reports no error: it returns
\* an arena with one cell per position, in input order, each with the column
\* and the row number of its position, every S[c] counting the positions of
\* column c, and run goes on to force rows into it and to search it.
Thm_C7 ==
    (~WellFormed(positions, numCols) /\ pc # "run") =>
        /\ DOMAIN built.C = 0 .. dim - 1
        /\ \A k \in 0 .. NumNodes - 1 : BuiltCell(k)
        /\ \A c \in Cols : BuiltSize(c)

\* run returned a solution for positions given out of order.
Wit_C7 ==
    /\ ~WellFormed(positions, numCols)
    /\ Returned /\ retval.has
    /\ Len(positions) = MaxRawLen

\* The headers reachable from the root by R (the active columns).
RECURSIVE RingFrom(_, _, _, _)
RingFrom(st, hd, w, n) ==
    IF w.i = hd THEN w
    ELSE IF n <= 1 THEN [set |-> w.set \cup {w.i}, i |-> st.R[w.i]]
    ELSE RingFrom(st, hd, RingFrom(st, hd, w, n \div 2), n - (n \div 2))
ActiveCols(st) == RingFrom(st, header, [set |-> {}, i |-> st.R[header]], Fuel(st)).set

InSearch == pc \in {"call", "loop", "ret", "done"}

\* C8 (reversibility): in every arena state of a search on a well-formed
\* input, for every active column c, coverColumn(c) followed by
\* uncoverColumn(c) leaves every L, R, U, D, S and C entry as it was.
CE_C8 ==
    (InSearch /\ WellFormed(positions, numCols)) =>
        \A c \in ActiveCols(state) :
            uncoverColumn(coverColumn(state, c), c) = state

\* The reversibility law of C8 in the searches that start from no forced rows
\* or from forced rows that are distinct and share no column.
Thm_C8 ==
    (InSearch /\ ForcedDisjoint) =>
        \A c \in ActiveCols(state) :
            uncoverColumn(coverColumn(state, c), c) = state

\* Inside a nested call, an active column whose cover removes a row from
\* another column.
Wit_C8 ==
    /\ pc = "call" /\ Len(stack) >= 1 /\ forced = <<>>
    /\ \E c \in ActiveCols(state) :
          /\ coverColumn(state, c).S # state.S
          /\ coverColumn(state, c).U # state.U

\* C9 as stated: every find_solution call, whatever it returns, leaves the
\* arena as it was when the call began, and after run the arena is the one
\* init built.
CE_C9 ==
    /\ pc = "ret" => state = Top.entry
    /\ (Returned /\ forced = <<>>) => state = built

\* What holds of C9 in the searches that start from no forced rows or from
\* forced rows that are distinct and share no column: every find_solution
\* call that returns no-solution leaves the arena as it was when the call
\* began, and after run(positions) returns absent the arena is the one init
\* built; a call that returns a solution returns at once and leaves the
\* columns it covered covered.
Thm_C9 ==
    /\ (pc = "ret" /\ ~retval.has /\ ForcedDisjoint) => state = Top.entry
    /\ (Returned /\ ~retval.has /\ forced = <<>>) => state = built
    /\ (pc = "ret" /\ retval.has /\ ForcedDisjoint) => state.R[header] = header

\* A call returns no-solution after it covered a column and undid every
\* candidate row of it.
Wit_C9 ==
    /\ pc = "ret" /\ ~retval.has /\ forced = <<>>
    /\ Top.col # header /\ Top.entry.S[Top.col] >= 2
    /\ abandoned >= 2

RingHealth(st) ==
    \A i \in DOMAIN st.R :
        /\ st.R[st.L[i]] = i /\ st.L[st.R[i]] = i
        /\ st.D[st.U[i]] = i /\ st.U[st.D[i]] = i

\* C10 as stated: after any top-level run, with or without a solution,
\* R[L[i]] = i, L[R[i]] = i, D[U[i]] = i and U[D[i]] = i for every index i.
CE_C10 ==
    Returned => RingHealth(state)

\* C10 (amended): after a top-level run(positions) that returns no-solution,
\* R[L[i]] = i, L[R[i]] = i, D[U[i]] = i and U[D[i]] = i for every index i.
Thm_C10 ==
    (Returned /\ forced = <<>> /\ ~retval.has) => RingHealth(state)

\* run(positions) returned absent after a search that undid candidates.
Wit_C10 ==
    /\ Returned /\ forced = <<>> /\ ~retval.has
    /\ abandoned >= 2

IsChain(n) == adapter = Direct /\ numCols = n /\ positions = ChainPositions(n)

\* C11 as stated: for the instance with 10 columns and rows 0..8 where row i
\* covers exactly columns {i, i+1}, run returns no-solution.
CE_C11 ==
    (Returned /\ IsChain(10)) => ~retval.has

\* C11 (amended): for the instance with 10 columns and rows 0..8 where row i
\* covers exactly columns {i, i+1}, run returns the solution that selects
\* rows 0, 2, 4, 6 and 8; over the chains of n columns, run returns a solution
\* exactly when n is even, and it selects the even rows.
Thm_C11 ==
    (Returned /\ IsChain(numCols)) =>
        /\ retval.has <=> (numCols % 2 = 0)
        /\ retval.has => Chosen(retval.val) = { r \in Rows : r % 2 = 0 }

\* run returned rows 0, 2, 4, 6, 8 for the chain of 10 columns.
Wit_C11 ==
    /\ Returned /\ IsChain(10)
    /\ retval.has /\ Chosen(retval.val) = {0, 2, 4, 6, 8}

IsDesign(v, k, t) ==
    adapter = [fn |-> "run_t_design", v |-> v, k |-> k, t |-> t]

\* The k-subset of [v] with rank r, as print_solution decodes it.
KSetOf(v, k, r) == { unrankKSubset(v, k, r)[i] : i \in 1 .. k }
SubsetsOfSize(v, t) == { T \in SUBSET (0 .. v - 1) : Cardinality(T) = t }

\* The selected k-subsets contain every t-subset of the v points exactly once.
IsDesignSolution(v, k, t, X) ==
    \A T \in SubsetsOfSize(v, t) :
        Cardinality({ r \in X : T \subseteq KSetOf(v, k, r) }) = 1

\* C12: whenever run_t_design<v,k,t> returns a solution vector, the k-subsets
\* whose rank is marked true contain every t-subset of the v points in exactly
\* one selected k-subset; for v=7, k=3, t=2 a solution is returned and it has
\* exactly 7 true rows among its 35.
Thm_C12 ==
    (adapter.fn = "run_t_design" /\ Returned) =>
        /\ retval.has =>
              IsDesignSolution(adapter.v, adapter.k, adapter.t, Chosen(retval.val))
        /\ IsDesign(7, 3, 2) =>
              /\ retval.has
              /\ Cardinality(Chosen(retval.val)) = 7
              /\ NumRows = 35

\* run_t_design<7,3,2> returned seven triples.
Wit_C12 ==
    /\ IsDesign(7, 3, 2) /\ Returned /\ retval.has
    /\ Cardinality(Chosen(retval.val)) = 7

\* The positions of out whose row is r, in the order of the list.
EntriesOfRow(out, r) == SelectSeq(out, LAMBDA e : e[1] = r)

\* The list is in non-decreasing order of (row, column).
SortedByRowCol(out) ==
    \A x \in 1 .. Len(out) - 1 :
        \/ out[x][1] < out[x + 1][1]
        \/ out[x][1] = out[x + 1][1] /\ out[x][2] <= out[x + 1][2]

MadeSudoku == adapter.fn = "makeSudokuPositions" /\ adapter.step = "made"

\* C13: the Sudoku position list for order N has exactly 4*N^6 entries sorted
\* by (r, c); every row r in [0, N^6) has exactly four positions, with one
\* column in each of [0, N^4), [N^4, 2N^4), [2N^4, 3N^4) and [3N^4, 4N^4).
Thm_C13 ==
    MadeSudoku =>
        LET N == adapter.N
            N4 == N * N * N * N
            N6 == N4 * N * N
            out == adapter.out
        IN  /\ Len(out) = 4 * N6
            /\ SortedByRowCol(out)
            /\ \A x \in 1 .. Len(out) : out[x][1] \in 0 .. N6 - 1
            /\ \A r \in 0 .. N6 - 1 :
                  LET es == EntriesOfRow(out, r)
                  IN  /\ Len(es) = 4
                      /\ \A f \in 0 .. 3 :
                            Cardinality({ y \in 1 .. 4 :
                                es[y][2] \in f * N4 .. (f + 1) * N4 - 1 }) = 1

\* The list for order 2 is made: 64 rows over 64 columns.
Wit_C13 ==
    /\ MadeSudoku /\ adapter.N = 2
    /\ Len(adapter.out) = 256
    /\ adapter.out[256] = <<63, 63>>

\* C14: for every Sudoku board string s (one character per cell in row-major
\* order, '0' for an empty cell), the forced-row list built from the string
\* equals, element by element, the forced-row list built from the triples
\* (i, j, d) of its non-'0' cells taken in row-major order.
CE_C14 ==
    (adapter.fn = "makeFixedCells" /\ adapter.step = "string") =>
        /\ ~adapter.overrun
        /\ adapter.f2 = adapter.f1

\* Every entry of the board is a digit, and every row, column and box holds
\* each digit exactly once.
BoardValid(N, b) ==
    LET side == N * N
        Cells == (0 .. side - 1) \X (0 .. side - 1)
        Once(G) == \A d \in 1 .. side : Cardinality({ c \in G : b[c[1]][c[2]] = d }) = 1
    IN  /\ \A c \in Cells : b[c[1]][c[2]] \in 1 .. side
        /\ \A i \in 0 .. side - 1 : Once({ c \in Cells : c[1] = i })
        /\ \A j \in 0 .. side - 1 : Once({ c \in Cells : c[2] = j })
        /\ \A x, y \in 0 .. N - 1 :
              Once({ c \in Cells : c[1] \div N = x /\ c[2] \div N = y })

AgreesWithGivens(b, fixed) ==
    \A x \in 1 .. Len(fixed) : b[fixed[x][1]][fixed[x][2]] = fixed[x][3]

Extracted == adapter.fn = "runSudoku" /\ adapter.step = "extracted"

LexLess(X, Y) ==
    /\ X # Y
    /\ LET Diff == (X \ Y) \cup (Y \ X)
           least == CHOOSE m \in Diff : \A n \in Diff : m <= n
       IN  least \in X

\* The number of subsets of the same size that precede X.
LexRank(v, X) ==
    Cardinality({ Y \in SubsetsOfSize(v, Cardinality(X)) : LexLess(Y, X) })

MadeDesign == adapter.fn = "makeDesignPositions" /\ adapter.step = "made"

\* C16: the t-(v,k,1) position list contains (row, col) exactly when the
\* k-subset of rank row contains the t-subset of rank col; every row has
\* exactly C(k,t) entries, all columns are in [0, C(v,t)), and the list is
\* sorted by (row, col).
Thm_C16 ==
    MadeDesign =>
        LET v == adapter.v
            k == adapter.k
            t == adapter.t
            out == adapter.out
            Listed == { out[x] : x \in 1 .. Len(out) }
        IN  /\ \A K \in SubsetsOfSize(v, k) : \A T \in SubsetsOfSize(v, t) :
                  (<<LexRank(v, K), LexRank(v, T)>> \in Listed) <=> (T \subseteq K)
            /\ \A e \in Listed :
                  /\ e[1] \in 0 .. Cardinality(SubsetsOfSize(v, k)) - 1
                  /\ e[2] \in 0 .. Cardinality(SubsetsOfSize(v, t)) - 1
            /\ \A r \in 0 .. Cardinality(SubsetsOfSize(v, k)) - 1 :
                  Len(EntriesOfRow(out, r)) = Cardinality(SubsetsOfSize(k, t))
            /\ SortedByRowCol(out)

\* The list of the 2-(7,3,1) design is made: 35 triples of 3 pairs each, the
\* last triple {4,5,6} ending with the last pair {5,6}.
Wit_C16 ==
    /\ MadeDesign /\ adapter.v = 7 /\ adapter.k = 3 /\ adapter.t = 2
    /\ Len(adapter.out) = 105
    /\ adapter.out[105] = <<34, 20>>

\* C17: rankKSubset<v,k>(unrankKSubset<v,k>(rk)) == rk for every rank
\* 0 <= rk < C(v,k).
Thm_C17 ==
    (adapter.fn = "subsets" /\ adapter.step = "ranked") => adapter.rank = adapter.rk

\* The last 3-subset of 8 points, {5,6,7}, was unranked from 55 and ranked.
Wit_C17 ==
    /\ adapter.fn = "subsets" /\ adapter.step = "ranked"
    /\ adapter.v = 8 /\ adapter.k = 3 /\ adapter.rk = 55
    /\ adapter.kset = <<5, 6, 7>>

\* C18: succKSubset<v,k>(unrankKSubset<v,k>(rk-1)) == unrankKSubset<v,k>(rk)
\* for every 1 <= rk < C(v,k), including k = 1.
Thm_C18 ==
    (adapter.fn = "subsets" /\ adapter.step = "succeeded") =>
        adapter.succ = unrankKSubset(adapter.v, adapter.k, adapter.rk + 1)

\* A successor with a carry: {0,6,7} is followed by {1,2,3} over 8 points.
Wit_C18 ==
    /\ adapter.fn = "subsets" /\ adapter.step = "succeeded"
    /\ adapter.v = 8 /\ adapter.k = 3
    /\ adapter.kset = <<0, 6, 7>> /\ adapter.succ = <<1, 2, 3>>

\* The nodes reached from the nodes of set by following the link f at most
\* n times.
RECURSIVE Reach(_, _, _)
Reach(f, set, n) ==
    IF n = 0 THEN set
    ELSE Reach(f, set \cup { f[x] : x \in set }, n - 1)

\* The ring of i under the link f.
RingOf(st, f, i) == Reach(f, {i}, Cardinality(DOMAIN st.R))

\* The nodes of the active rings: the root ring, the vertical rings of the
\* active columns, the horizontal rings of the cells linked in them.
ActiveRingNodes(st) ==
    LET root == RingOf(st, st.R, header)
        vertical == UNION { RingOf(st, st.D, c) : c \in root \ {header} }
        horizontal == UNION { RingOf(st, st.R, i) : i \in vertical \ root }
    IN  root \cup vertical \cup horizontal

RingsSymmetric(st) ==
    \A i \in ActiveRingNodes(st) :
        /\ st.R[st.L[i]] = i
        /\ st.L[st.R[i]] = i
        /\ st.D[st.U[i]] = i
        /\ st.U[st.D[i]] = i

\* find_solution is being entered.
AtEntry == pc = "call"

\* A cover has just been undone: a candidate row of the innermost call
\* (the loop has moved past the first candidate), or its column.
JustUndone ==
    \/ pc = "loop" /\ Top.i # state.D[Top.col]
    \/ pc = "ret" /\ ~retval.has

\* C19: ring symmetry at quiescent moments: at every entry to find_solution
\* and after every completed cover/uncover pair during a search on a
\* well-formed input, every index i in an active ring (the root ring, the
\* vertical ring of an active column, the horizontal ring of a cell linked in
\* an active column) satisfies R[L[i]] = i, L[R[i]] = i, D[U[i]] = i and
\* U[D[i]] = i.
CE_C19 ==
    (WellFormed(positions, numCols) /\ (AtEntry \/ JustUndone)) =>
        RingsSymmetric(state)

\* The ring symmetry of C19 in the searches that start from no forced rows or
\* from forced rows that are distinct and share no column.
Thm_C19 ==
    (WellFormed(positions, numCols) /\ ForcedDisjoint /\ (AtEntry \/ JustUndone)) =>
        RingsSymmetric(state)

\* A candidate row that covered another column was undone, and active
\* columns with cells remain.
Wit_C19 ==
    /\ WellFormed(positions, numCols) /\ ForcedDisjoint
    /\ pc = "loop" /\ Top.i # state.D[Top.col]
    /\ abandoned > 0
    /\ \E c \in ActiveCols(state) : state.S[c] > 1
    /\ Cardinality(ActiveRingNodes(state)) > 4
    /\ RingsSymmetric(state)

\* The cells reached by following D from the header c until returning to c.
ColumnCells(st, c) == RingOf(st, st.D, c) \ {c}

SizesExact(st) ==
    \A c \in Cols : st.S[c] = Cardinality(ColumnCells(st, c))

\* C20: size counters are exact: after build and at every entry to
\* find_solution during a search without forced rows, for every column
\* header c the value S[c] equals the number of distinct cells reached by
\* following D from c until returning to c.
Thm_C20 ==
    /\ pc # "run" => SizesExact(built)
    /\ (AtEntry /\ forced = <<>>) => SizesExact(state)

\* find_solution is entered after a candidate row took cells away from a
\* column that is still active.
Wit_C20 ==
    /\ AtEntry /\ forced = <<>> /\ Len(stack) > 0
    /\ \E c \in ActiveCols(state) :
          /\ state.S[c] > 0
          /\ state.S[c] < built.S[c]
          /\ state.S[c] = Cardinality(ColumnCells(state, c))

\* The nodes met from i by following the link f until stop is met, in the
\* order they are met (at most n of them).
RECURSIVE WalkSeq(_, _, _, _)
WalkSeq(f, i, stop, n) ==
    IF i = stop \/ n = 0 THEN <<>>
    ELSE <<i>> \o WalkSeq(f, f[i], stop, n - 1)

\* The ring of node i under the link f, listed from the node after i.
RingAfter(st, f, i) == WalkSeq(f, f[i], i, Cardinality(DOMAIN st.R))

\* The headers met by following R from the root until it comes back.
RootRing(st) == RingAfter(st, st.R, header)

\* The columns with no position of a row marked true in v.
Uncovered(v) == { c \in Cols : Covering(Chosen(v), c) = {} }

\* C21: at every entry to find_solution during a search on a well-formed
\* input, the headers reachable from the root by following R are exactly the
\* columns that contain no position of any row currently marked true in the
\* solution vector (the still-uncovered columns), in ascending index order.
CE_C21 ==
    (WellFormed(positions, numCols) /\ AtEntry) =>
        LET ring == RootRing(state)
        IN  /\ { ring[x] : x \in 1 .. Len(ring) } = Uncovered(sol)
            /\ \A x \in 1 .. Len(ring) - 1 : ring[x] < ring[x + 1]

\* The root ring property of C21 in the searches that start from no forced
\* rows or from forced rows that are distinct and share no column.
Thm_C21 ==
    (WellFormed(positions, numCols) /\ ForcedDisjoint /\ AtEntry) =>
        LET ring == RootRing(state)
        IN  /\ { ring[x] : x \in 1 .. Len(ring) } = Uncovered(sol)
            /\ \A x \in 1 .. Len(ring) - 1 : ring[x] < ring[x + 1]

\* A nested entry with a row marked, a covered column below the two columns
\* that are still in the root ring.
Wit_C21 ==
    /\ WellFormed(positions, numCols) /\ ForcedDisjoint /\ AtEntry
    /\ Len(stack) > 0
    /\ Chosen(sol) # {}
    /\ Len(RootRing(state)) >= 2
    /\ \E c \in Cols \ Uncovered(sol) : c < RootRing(state)[1]

\* The cells of the positions that satisfy Test, in input order.
CellsWhere(Test(_)) ==
    LET ks == SelectSeq([k \in 1 .. Len(positions) |-> k], LAMBDA k : Test(positions[k]))
    IN  [x \in 1 .. Len(ks) |-> HeaderSize + ks[x] - 1]

CellsOfColumn(c) == CellsWhere(LAMBDA p : p[2] = c)
CellsOfRow(r) == CellsWhere(LAMBDA p : p[1] = r)

\* C22: builder postcondition: for every well-formed input, after init the
\* cell for the k-th position has index NumCols+1+k with C equal to that
\* position's column and RM equal to its row; the root ring lists headers
\* 0..NumCols-1 in ascending order; each header's S equals the number of
\* input positions in its column; each column's vertical ring lists its
\* cells in input order; and each row's horizontal ring lists its cells in
\* input order.
Thm_C22 ==
    (WellFormed(positions, numCols) /\ pc # "run") =>
        /\ DOMAIN built.C = 0 .. numCols + NumNodes
        /\ \A k \in 0 .. NumNodes - 1 : BuiltCell(k)
        /\ RootRing(built) = [x \in 1 .. numCols |-> x - 1]
        /\ \A c \in Cols : BuiltSize(c)
        /\ \A c \in Cols : RingAfter(built, built.D, c) = CellsOfColumn(c)
        /\ \A r \in Rows :
              LET cells == CellsOfRow(r)
              IN  cells # <<>> =>
                    <<cells[1]>> \o RingAfter(built, built.R, cells[1]) = cells

\* An arena was built with a column of three cells and a row of three cells.
Wit_C22 ==
    /\ WellFormed(positions, numCols) /\ pc # "run"
    /\ \E c \in Cols : Len(CellsOfColumn(c)) = 3 /\ built.S[c] = 3
    /\ \E r \in Rows : Len(CellsOfRow(r)) = 3
    /\ Len(RootRing(built)) = 3

\* The innermost call chose a column: its root ring was not empty.
Chose == Len(stack) > 0 /\ Top.col # header

\* C23: S-heuristic: at each non-terminal search step the column chosen for
\* branching is an active column with the smallest S among all columns in
\* the root ring, and among columns with that minimal S it is the one with
\* the smallest index.
\* (S is a size_t: sizes are compared as unsigned values.)
Thm_C23 ==
    Chose =>
        LET active == ActiveCols(Top.entry)
            S == Top.entry.S
        IN  /\ Top.col \in active
            /\ \A c \in active :
                  \/ ULess(S[Top.col], S[c])
                  \/ S[Top.col] = S[c] /\ Top.col <= c

\* A call chose the second of three active columns: the first is
\* larger, the third is as small as the chosen one.
Wit_C23 ==
    /\ Chose /\ forced = <<>>
    /\ \E b, c \in ActiveCols(Top.entry) :
          /\ b < Top.col /\ Top.col < c
          /\ Top.entry.S[b] > Top.entry.S[Top.col]
          /\ Top.entry.S[c] = Top.entry.S[Top.col]

\* The candidates of a call: the cells linked in the vertical ring of its
\* column when it was entered, from D[c] on.
Candidates(fr) == RingAfter(fr.entry, fr.entry.D, fr.col)

\* The first candidate, or the column when it has none.
FirstCandidate(fr) ==
    IF Candidates(fr) = <<>> THEN fr.col ELSE Candidates(fr)[1]

\* The candidate after cell i, or the column when i is the last one.
NextCandidate(fr, i) ==
    LET cands == Candidates(fr)
        k == CHOOSE x \in 1 .. Len(cands) : cands[x] = i
    IN  IF k < Len(cands) THEN cands[k + 1] ELSE fr.col

\* The candidates are cells of the column, in the order of their positions
\* in the input list.
InInputOrder(fr) ==
    LET cands == Candidates(fr)
    IN  /\ \A x \in 1 .. Len(cands) :
              /\ cands[x] >= HeaderSize
              /\ positions[cands[x] - HeaderSize + 1][2] = fr.col
        /\ \A x \in 1 .. Len(cands) - 1 : cands[x] < cands[x + 1]

\* One step of the search, seen from the candidate loops: a call that covers
\* a column starts at its first candidate; the row that is tried is the
\* current candidate; and the current candidate of a call changes only when
\* the recursion on it has returned no-solution, to the next candidate.
CandidateStep ==
    /\ (pc = "call" /\ pc' = "loop") =>
          /\ InInputOrder(stack'[Len(stack')])
          /\ stack'[Len(stack')].i = FirstCandidate(stack'[Len(stack')])
    /\ (pc = "loop" /\ pc' = "call") =>
          /\ \E x \in 1 .. Len(Candidates(Top)) : Candidates(Top)[x] = Top.i
          /\ sol' = [sol EXCEPT ![state.RM[Top.i]] = TRUE]
    /\ \A d \in 1 .. Len(stack) :
          (d <= Len(stack') /\ stack'[d].i # stack[d].i) =>
              /\ pc = "ret" /\ ~retval.has
              /\ d = Len(stack) - 1
              /\ stack'[d].i = NextCandidate(stack[d], stack[d].i)

\* C24: candidate order: for the chosen column, the search tries the
\* still-linked candidate rows in the order their occupancies in that column
\* appear in the input position list (the vertical-ring order from D[c]), and
\* a later candidate is tried only after the recursion on every earlier
\* candidate returned no-solution.
Thm_C24 == [][CandidateStep]_vars

\* The second candidate of the outermost call is being tried after the
\* first was abandoned.
Wit_C24 ==
    /\ pc = "call" /\ Len(stack) = 1 /\ forced = <<>>
    /\ Len(Candidates(Top)) = 2
    /\ Top.i = Candidates(Top)[2]
    /\ abandoned >= 1
    /\ sol[state.RM[Top.i]] /\ ~sol[state.RM[Candidates(Top)[1]]]

\* The call covered a column: it chose one that has rows.
CoveredAColumn(fr) == fr.col # header /\ fr.entry.S[fr.col] # 0

\* The number of active calls that have covered a column.
CoverDepth == Cardinality({ d \in 1 .. Len(stack) : CoveredAColumn(stack[d]) })

\* C25: depth bound: in every execution of run on a well-formed input, the
\* number of nested active find_solution calls that have covered a column
\* never exceeds NumCols.
CE_C25 ==
    WellFormed(positions, numCols) => CoverDepth <= numCols

\* The depth bound of C25 in the runs with no forced rows or with forced rows
\* that are distinct and share no column.
Thm_C25 ==
    (WellFormed(positions, numCols) /\ ForcedDisjoint) => CoverDepth <= numCols

\* Three nested calls have each covered one of the three columns.
Wit_C25 ==
    /\ WellFormed(positions, numCols) /\ ForcedDisjoint
    /\ numCols = 3 /\ CoverDepth = 3

\* A ring walk of coverColumn, uncoverColumn or the column selection never
\* comes back to its starting index.
WalkLoopsForever == pc = "hang" \/ state.hung

\* C26: termination: for every well-formed input, run eventually returns;
\* every ring walk in coverColumn, uncoverColumn and the column-selection
\* loop returns to its starting index (the inner loop of uncoverColumn
\* advances with j = L[j]), so no walk loops forever.
\* (The input of a run never changes, so "for every well-formed input" is
\* put inside the temporal operators.)
CE_C26 ==
    /\ <>(WellFormed(positions, numCols) => Returned)
    /\ [](WellFormed(positions, numCols) => ~WalkLoopsForever)

\* The termination of C26 in the runs with no forced rows or with forced rows
\* that are distinct and share no column.
Thm_C26 ==
    /\ <>((WellFormed(positions, numCols) /\ ForcedDisjoint) => Returned)
    /\ []((WellFormed(positions, numCols) /\ ForcedDisjoint) => ~WalkLoopsForever)

\* run returned after a search that undid candidate rows of two or more
\* cells, walking their rings back.
Wit_C26 ==
    /\ WellFormed(positions, numCols) /\ ForcedDisjoint
    /\ Returned /\ abandoned >= 2
    /\ \E r \in Rows : Len(CellsOfRow(r)) >= 2 /\ ~retval.val[r]

\* The cells of column c, and the other cells of the rows that have a cell
\* in the vertical ring of column c.
InColumn(st, c) == { i \in DOMAIN st.C : i > header /\ st.C[i] = c }
RowMates(st, c) ==
    LET ring == RingAfter(st, st.D, c)
    IN  UNION { { j \in DOMAIN st.RM : j > header /\ j # ring[x] /\ st.RM[j] = st.RM[ring[x]] } :
                x \in 1 .. Len(ring) }

\* What coverColumn(c) may write: the root-ring links of c's neighbours, the
\* U/D links of the vertical neighbours of the row mates, and the sizes of
\* the row mates' columns; everything else is as before.
CoverFrame(st, c) ==
    LET after == coverColumn(st, c)
        mates == RowMates(st, c)
    IN  /\ after.U[c] = st.U[c] /\ after.D[c] = st.D[c] /\ after.S[c] = st.S[c]
        /\ \A i \in InColumn(st, c) : after.U[i] = st.U[i] /\ after.D[i] = st.D[i]
        /\ \A i \in DOMAIN st.L : i > header => after.L[i] = st.L[i] /\ after.R[i] = st.R[i]
        /\ after.C = st.C /\ after.RM = st.RM
        /\ \A i \in DOMAIN st.L : after.L[i] # st.L[i] => i = st.R[c]
        /\ \A i \in DOMAIN st.R : after.R[i] # st.R[i] => i = st.L[c]
        /\ \A i \in DOMAIN st.U : after.U[i] # st.U[i] => \E j \in mates : i = st.D[j]
        /\ \A i \in DOMAIN st.D : after.D[i] # st.D[i] => \E j \in mates : i = st.U[j]
        /\ \A k \in DOMAIN st.S : after.S[k] # st.S[k] => \E j \in mates : k = st.C[j]

\* C27: frame of coverColumn(c): the cells of column c stay linked in c's
\* vertical ring (U and D of c and of every cell of column c, and S[c], are
\* unchanged), no L or R entry of a data cell changes, no C or RM entry
\* changes; only the root-ring links of c's neighbours, the U/D links around
\* the other cells of c's rows and the S of those cells' columns change.
Thm_C27 ==
    pc # "run" => \A c \in Cols : CoverFrame(state, c)

\* Inside a search, covering an active column with two cells changes the
\* root ring, vertical links and a size.
Wit_C27 ==
    /\ pc = "call" /\ Len(stack) >= 1
    /\ \E c \in ActiveCols(state) :
          /\ state.S[c] = 2
          /\ Cardinality(RowMates(state, c)) >= 2
          /\ coverColumn(state, c).S # state.S
          /\ coverColumn(state, c).U # state.U
          /\ coverColumn(state, c).R # state.R
          /\ CoverFrame(state, c)

\* Every column of row r is in the root ring.
RowActive(st, r) ==
    /\ Len(CellsOfRow(r)) > 0
    /\ \A x \in 1 .. Len(CellsOfRow(r)) : st.C[CellsOfRow(r)[x]] \in ActiveCols(st)

\* useRow(state, idx, sol) followed by unuseRow(state, idx, sol).
UseUnuse(st, idx) == unuseRow(useRow(st, idx), idx)
UseUnuseSol(st, idx, s) == unuseRowSol(useRow(st, idx), idx, useRowSol(st, idx, s))

\* C28: round trip of useRow and unuseRow: in every state reachable after
\* build in which all columns of a row are active, and for every cell index
\* idx of that row, useRow(state, idx, sol) followed by
\* unuseRow(state, idx, sol) leaves the arena (L, R, U, D, C, S) and the
\* solution vector unchanged.
CE_C28 ==
    pc # "run" =>
        \A r \in Rows :
            RowActive(state, r) =>
                \A x \in 1 .. Len(CellsOfRow(r)) :
                    /\ UseUnuse(state, CellsOfRow(r)[x]) = state
                    /\ UseUnuseSol(state, CellsOfRow(r)[x], sol) = sol

\* C29: the size counters never underflow: in every state reachable during
\* run (either overload, for any fixed_rows list whose entries address
\* existing cells), for every column c, 0 <= S[c] <= the number of positions
\* in column c.  S[c] is an unsigned size_t: a decrement below 0 wraps to a
\* value above every count, so the bounds are read in the unsigned order.
CE_C29 ==
    pc # "run" =>
        \A c \in Cols :
            /\ ~ULess(state.S[c], 0)
            /\ ~ULess(Len(CellsOfColumn(c)), state.S[c])

\* C30: the solution vector is restored on failure: whenever a find_solution
\* call returns no-solution, the solution vector equals its value at the
\* entry of that call, so every row marked true for a candidate that was
\* tried and abandoned is false again before the next candidate is tried.
CE_C30 ==
    (pc = "ret" /\ ~retval.has) => sol = Top.entrySol

====
